---------------------------- MODULE Spec2Model ----------------------------
(***************************************************************************)
(* Verification model of the WaterInSand tutorial notebook                 *)
(* (tutorial/WaterInSandTutorial.ipynb): the dose-corrected normalization, *)
(* the black-body dot locator get_bb_info, the scatter-corrected           *)
(* normalization, the step-wedge line fit, the water-front position and    *)
(* the cells run on one namespace.                                         *)
(*                                                                         *)
(* Numbers.  Gray levels are integers.  Every derived quantity (means,     *)
(* centroids, ratios) is an exact fraction <<n, d>> in lowest terms with   *)
(* d >= 0.  The floating-point specials are the fractions with d = 0:      *)
(* <<1,0>> is +inf, <<-1,0>> is -inf and <<0,0>> is NaN, with the IEEE     *)
(* rules numpy follows (x/0 = inf, 0/0 = NaN, inf-inf = NaN, 0*inf = NaN). *)
(* Signed zeros and rounding are not modelled.                             *)
(*                                                                         *)
(* Images are records [shape |-> <<H, W>>, px |-> f] where f maps the      *)
(* 0-based index pair <<r, c>> to the pixel value, as numpy indexes them.  *)
(***************************************************************************)
EXTENDS Integers, Sequences, FiniteSets, TLC

VARIABLES
    bbmask,   \* the notebook global bbmask (cell 82fa1ca7)
    args,     \* the arguments of the invocation under study
    ret,      \* what the invocation produced (or how it failed)
    pc        \* position: which stage is to run, "done" afterwards

vars == <<bbmask, args, ret, pc>>

---------------------------------------------------------------------------
(* Bounds of the model *)

MaxVal == 3     \* gray levels range over 0..MaxVal

---------------------------------------------------------------------------
(* Exact arithmetic with the IEEE specials *)

Abs(x) == IF x < 0 THEN -x ELSE x

Sign(x) == IF x < 0 THEN -1 ELSE IF x > 0 THEN 1 ELSE 0

RECURSIVE GCD(_, _)
GCD(a, b) == IF b = 0 THEN a ELSE GCD(b, a % b)

\* the fraction n/d in lowest terms, d >= 0
Frac(n, d) ==
    IF d = 0 THEN <<Sign(n), 0>>
    ELSE LET g == GCD(Abs(n), Abs(d))
             s == IF d < 0 THEN -1 ELSE 1
         IN  <<(s * n) \div g, (s * d) \div g>>

QInt(n) == <<n, 1>>

NaN == <<0, 0>>
PosInf == <<1, 0>>
NegInf == <<-1, 0>>

IsFinite(q) == q[2] # 0

QMul(a, b) == Frac(a[1] * b[1], a[2] * b[2])

QRecip(a) == IF a[1] < 0 THEN Frac(-a[2], -a[1]) ELSE Frac(a[2], a[1])

QDiv(a, b) == QMul(a, QRecip(b))

QAdd(a, b) ==
    IF a[2] = 0 /\ b[2] = 0
    THEN (IF a = b THEN a ELSE NaN)
    ELSE Frac(a[1] * b[2] + b[1] * a[2], a[2] * b[2])

QNeg(a) == <<-a[1], a[2]>>

QSub(a, b) == QAdd(a, QNeg(b))

QLess(a, b) == IsFinite(a) /\ IsFinite(b) /\ a[1] * b[2] < b[1] * a[2]

\* -np.log(t): the value is kept as the argument t it is the negated
\* logarithm of; it is 0 exactly when t = 1.  log(0) = -inf, the logarithm
\* of a negative number or of NaN is NaN, log(+inf) = +inf.
NegLog(t) ==
    IF t = NaN \/ t[1] < 0 THEN [class |-> "nan", of |-> NaN]
    ELSE IF t[1] = 0 THEN [class |-> "posinf", of |-> NaN]
    ELSE IF t[2] = 0 THEN [class |-> "neginf", of |-> NaN]
    ELSE [class |-> "finite", of |-> t]

PZero == [class |-> "finite", of |-> <<1, 1>>]

---------------------------------------------------------------------------
(* Images and numpy's elementwise operations *)

Indices(shape) == (0 .. shape[1] - 1) \X (0 .. shape[2] - 1)

Image(shape, f) == [shape |-> shape, px |-> f]

Flat(shape, v) == Image(shape, [i \in Indices(shape) |-> v])

\* variant of AxisCompatible without the length-1 rule
AxisCompatible_equal(m, n) == m = n

\* numpy broadcasting of two axis lengths: equal, or one of them is 1
AxisCompatible(m, n) == m = n \/ m = 1 \/ n = 1

Max(m, n) == IF m < n THEN n ELSE m

Min(m, n) == IF m < n THEN m ELSE n

Broadcastable(s, t) ==
    AxisCompatible(s[1], t[1]) /\ AxisCompatible(s[2], t[2])

BroadcastShape(s, t) == <<Max(s[1], t[1]), Max(s[2], t[2])>>

\* the pixel of a at index i of the broadcast result
At(a, i) ==
    a.px[<<IF a.shape[1] = 1 THEN 0 ELSE i[1],
           IF a.shape[2] = 1 THEN 0 ELSE i[2]>>]

\* c = a - b, pixel by pixel (integer images)
ImgSub(a, b) ==
    LET s == BroadcastShape(a.shape, b.shape)
    IN  Image(s, [i \in Indices(s) |-> At(a, i) - At(b, i)])

\* variant of ClampLow with the comparison  a[a<0] = 1
ClampLow_below0(a) ==
    Image(a.shape, [i \in Indices(a.shape) |-> IF a.px[i] < 0 THEN 1 ELSE a.px[i]])

\* a[a<1] = 1
ClampLow(a) ==
    Image(a.shape, [i \in Indices(a.shape) |-> IF a.px[i] < 1 THEN 1 ELSE a.px[i]])

RECURSIVE SumOver(_, _)
SumOver(f, S) ==
    IF S = {} THEN 0
    ELSE LET i == CHOOSE j \in S : TRUE
         IN  f[i] + SumOver(f, S \ {i})

\* the index pairs selected by img[r0:r1, c0:c1]; a slice is cut at the
\* image's edge and is empty when its start is not below its end
SliceIndices(shape, roi) ==
    {i \in Indices(shape) :
        /\ roi[1] <= i[1] /\ i[1] < roi[3]
        /\ roi[2] <= i[2] /\ i[2] < roi[4]}

\* D(a) = a[r0:r1, c0:c1].mean(), roi = [r0, c0, r1, c1]; the mean of an
\* empty slice is NaN
Dose(a, roi) ==
    LET S == SliceIndices(a.shape, roi)
    IN  Frac(SumOver(a.px, S), Cardinality(S))

---------------------------------------------------------------------------
(* Dose-corrected normalization (cells d5df1519, 0cfbb70f, 685c22c7):      *)
(*   p = -log( (I - I_DC)/(I_0 - I_DC) * D(I_0 - I_DC)/D(I - I_DC) )       *)
(* "Subtract DC and adjust pixels less than '1' to '1'", then the dose of  *)
(* each term over the region, then the ratio and the logarithm.            *)

\* numpy raises ValueError ("operands could not be broadcast together")
\* when two operands of an elementwise operation cannot be broadcast
ShapeError == [status |-> "ValueError"]

\* variant of Transmission that multiplies by D(I_0 - I_DC) and leaves out
\* the division by D(I - I_DC)
Transmission_nodiv(s, o, roi) ==
    LET shape == BroadcastShape(s.shape, o.shape)
        dose  == Dose(o, roi)
    IN  Image(shape, [i \in Indices(shape) |->
            QMul(QDiv(QInt(At(s, i)), QInt(At(o, i))), dose)])

\* the ratio image T
Transmission(s, o, roi) ==
    LET shape == BroadcastShape(s.shape, o.shape)
        dose  == QDiv(Dose(o, roi), Dose(s, roi))
    IN  Image(shape, [i \in Indices(shape) |->
            QMul(QDiv(QInt(At(s, i)), QInt(At(o, i))), dose)])

NegLogImage(t) ==
    Image(t.shape, [i \in Indices(t.shape) |-> NegLog(t.px[i])])

normalize(img, dc, ob, roi) ==
    IF ~Broadcastable(img.shape, dc.shape) \/ ~Broadcastable(ob.shape, dc.shape)
    THEN ShapeError
    ELSE LET s == ClampLow(ImgSub(img, dc))
             o == ClampLow(ImgSub(ob, dc))
         IN  IF ~Broadcastable(s.shape, o.shape)
             THEN ShapeError
             ELSE [status |-> "ok",
                   s      |-> s,
                   o      |-> o,
                   p      |-> NegLogImage(Transmission(s, o, roi))]

---------------------------------------------------------------------------
(* Inputs of the normalization *)

\* image shapes <<rows, columns>>
Shapes == {<<1, 1>>, <<1, 2>>, <<1, 3>>, <<2, 2>>}

Vals == 0 .. MaxVal

\* images with one gray level at index <<0,0>> and one everywhere else
TwoLevel(shape) ==
    {Image(shape, [i \in Indices(shape) |-> IF i = <<0, 0>> THEN a ELSE b]) :
        a \in Vals, b \in Vals}

Images == UNION {TwoLevel(sh) : sh \in Shapes}

FlatImages == {Flat(sh, v) : sh \in Shapes, v \in Vals}

\* dose regions [r0, c0, r1, c1]
ROIs == {<<0, 0, 1, 1>>, <<0, 0, 1, 2>>, <<0, 1, 1, 3>>, <<0, 0, 2, 2>>,
         <<0, 1, 1, 1>>, <<0, 2, 1, 5>>}

\* a region of non-zero area inside an image of the given shape
ValidROI(shape, roi) ==
    /\ 0 <= roi[1] /\ roi[1] < roi[3] /\ roi[3] <= shape[1]
    /\ 0 <= roi[2] /\ roi[2] < roi[4] /\ roi[4] <= shape[2]

NoMask == Flat(<<1, 1>>, 0)

Pending == [status |-> "pending"]

InitNorm ==
    /\ bbmask = NoMask
    /\ \E img \in Images, ob \in Images, dc \in FlatImages, roi \in ROIs :
           args = [img |-> img, dc |-> dc, ob |-> ob, roi |-> roi]
    /\ ret = Pending
    /\ pc = "normalize"

\* part 1 of the exercise; part 2 follows when its images are loaded
Normalize ==
    /\ pc = "normalize"
    /\ IF "bbs_s" \in DOMAIN args
       THEN /\ ret' = [ret EXCEPT !.part1 = normalize(args.img, args.dc, args.ob, args.roi)]
            /\ pc' = "normalization_with_BB"
       ELSE /\ ret' = normalize(args.img, args.dc, args.ob, args.roi)
            /\ pc' = "done"
    /\ UNCHANGED <<bbmask, args>>

NextNorm == Normalize

SpecNorm == InitNorm /\ [][NextNorm]_vars

---------------------------------------------------------------------------
(* Properties of the dose-corrected normalization *)

NormDone == pc = "done" /\ "img" \in DOMAIN args /\ "ob" \in DOMAIN args

AllZeroDC == args.dc = Flat(args.img.shape, 0)

\* C1: when the open-beam image equals the image pixel for pixel, the dark
\* current is zero everywhere and the dose region is valid, the output p is
\* 0 at every pixel.
C1_IdenticalImagesGiveZero ==
    (NormDone /\ args.img = args.ob /\ AllZeroDC
        /\ ValidROI(args.img.shape, args.roi))
    => /\ ret.status = "ok"
       /\ ret.p.shape = args.img.shape
       /\ \A i \in Indices(args.img.shape) : ret.p.px[i] = PZero

\* C1 witness: a normalized image with two different gray levels, one of
\* them 0, equal to its open beam, with a dose region smaller than the image
C1_Witness ==
    /\ NormDone /\ args.img = args.ob /\ AllZeroDC
    /\ ValidROI(args.img.shape, args.roi)
    /\ args.img.shape = <<1, 3>> /\ args.roi = <<0, 1, 1, 3>>
    /\ args.img.px[<<0, 0>>] = 0 /\ args.img.px[<<0, 1>>] = MaxVal
    /\ ret.status = "ok"

\* the value of a term after dark-current subtraction, at index i
Subtracted(a, i) == At(a, i) - At(args.dc, i)

Clamped(v) == IF v < 1 THEN 1 ELSE v

\* C2: in the sample term and in the open-beam term every pixel whose
\* dark-current-subtracted value is below 1 is exactly 1, every other pixel
\* is unchanged, and the ratio and logarithm are taken of these terms.
C2_ClampToOne ==
    (NormDone /\ ret.status = "ok")
    => /\ \A i \in Indices(ret.s.shape) :
             ret.s.px[i] = Clamped(Subtracted(args.img, i))
       /\ \A i \in Indices(ret.o.shape) :
             ret.o.px[i] = Clamped(Subtracted(args.ob, i))
       /\ \A i \in Indices(ret.p.shape) :
             ret.p.px[i] =
                 NegLog(QMul(Frac(At(ret.s, i), At(ret.o, i)),
                             QDiv(Dose(ret.o, args.roi), Dose(ret.s, args.roi))))

\* C2 witness: one result holds a sample pixel raised from a negative value,
\* a sample pixel left at a value above 1 and an open-beam pixel raised from 0
C2_Witness ==
    /\ NormDone /\ ret.status = "ok"
    /\ \E i \in Indices(ret.s.shape) :
           Subtracted(args.img, i) < 0 /\ ret.s.px[i] = 1
    /\ \E i \in Indices(ret.s.shape) :
           Subtracted(args.img, i) > 1 /\ ret.s.px[i] = Subtracted(args.img, i)
    /\ \E i \in Indices(ret.o.shape) :
           Subtracted(args.ob, i) = 0 /\ ret.o.px[i] = 1

AllSameShape ==
    args.img.shape = args.dc.shape /\ args.dc.shape = args.ob.shape

\* on some axis two of the three images have different lengths, neither 1
SomeAxisClashes ==
    \E k \in 1 .. 2 :
        \E a, b \in {args.img.shape[k], args.dc.shape[k], args.ob.shape[k]} :
            a # b /\ a # 1 /\ b # 1

---------------------------------------------------------------------------
(* Black-body dot locator (cell 7b3bc7e3):                                 *)
(*   def get_bb_info(img, mask, R):                                        *)
(*       lbl = label(bbmask)                                               *)
(*       for region in regionprops(lbl):                                   *)
(*           x, y = region.centroid                                        *)
(*           rr, cc = disk((x, y), R)                                      *)
(*           dotdata = img[rr, cc]                                         *)
(*           regions.append({label, mean, median, r, c})                   *)
(*       return pd.DataFrame.from_dict(regions)                            *)
(* The data frame is the sequence of its rows.                             *)

MaxR == 2       \* disk radii range over 1..MaxR
MaxOn == 2      \* a dot mask has at most MaxOn pixels set

\* the pixels set in a mask
OnPixels(mask) == {i \in Indices(mask.shape) : mask.px[i] # 0}

\* skimage.measure.label joins pixels that touch by an edge or a corner
\* (connectivity = ndim is the default)
Touching(i, j) == Abs(i[1] - j[1]) <= 1 /\ Abs(i[2] - j[2]) <= 1

RECURSIVE Grow(_, _)
Grow(S, On) ==
    LET N == {j \in On \ S : \E i \in S : Touching(i, j)}
    IN  IF N = {} THEN S ELSE Grow(S \cup N, On)

\* position of a pixel in the row-by-row scan of the image
Raster(i, shape) == i[1] * shape[2] + i[2]

RECURSIVE LabelScan(_, _)
LabelScan(On, shape) ==
    IF On = {} THEN <<>>
    ELSE LET first == CHOOSE i \in On : \A j \in On : Raster(i, shape) <= Raster(j, shape)
             comp  == Grow({first}, On)
         IN  <<comp>> \o LabelScan(On \ comp, shape)

\* label(m): the connected components of m; component number n of the
\* sequence carries label n (labels follow the scan order)
label(m) == LabelScan(OnPixels(m), m.shape)

\* region.centroid: the mean row and the mean column of the region
Centroid(comp) ==
    <<Frac(SumOver([i \in comp |-> i[1]], comp), Cardinality(comp)),
      Frac(SumOver([i \in comp |-> i[2]], comp), Cardinality(comp))>>

\* regionprops(lbl): one region per label, in increasing label order
regionprops(lbl) ==
    [n \in 1 .. Len(lbl) |-> [label |-> n, centroid |-> Centroid(lbl[n])]]

\* np.floor and np.ceil of a finite fraction
Floor(q) == q[1] \div q[2]

Ceil(q) == -((-q[1]) \div q[2])

\* disk((x, y), R) without a shape: the integer pairs <<r, c>> of the box
\* ceil(center - R) .. floor(center + R) with (r - x)^2 + (c - y)^2 < R^2;
\* the box is not cut to any image.  With x = x1/x2 and y = y1/y2 the
\* comparison is made on the common denominator.
disk(center, R) ==
    LET x == center[1]
        y == center[2]
    IN  {i \in (Ceil(QSub(x, QInt(R))) .. Floor(QAdd(x, QInt(R))))
               \X (Ceil(QSub(y, QInt(R))) .. Floor(QAdd(y, QInt(R)))) :
            (i[1] * x[2] - x[1]) * (i[1] * x[2] - x[1]) * y[2] * y[2]
            + (i[2] * y[2] - y[1]) * (i[2] * y[2] - y[1]) * x[2] * x[2]
            < R * R * x[2] * x[2] * y[2] * y[2]}

\* numpy index k on an axis of length n: 0..n-1 as it is, -n..-1 counted
\* from the end, anything else is an IndexError
IndexOK(k, n) == -n <= k /\ k < n

WrapIndex(k, n) == IF k < 0 THEN k + n ELSE k

AllIndexOK(coords, shape) ==
    \A i \in coords : IndexOK(i[1], shape[1]) /\ IndexOK(i[2], shape[2])

\* img[rr, cc]: one value per index pair (two pairs may name one pixel)
FancyIndex(img, coords) ==
    [i \in coords |->
        img.px[<<WrapIndex(i[1], img.shape[1]), WrapIndex(i[2], img.shape[2])>>]]

\* np.mean of the values data[i], i in coords
Mean(data, coords) == Frac(SumOver(data, coords), Cardinality(coords))

\* the k-th smallest of the values data[i], i in coords
KthSmallest(data, coords, k) ==
    LET AtMost(v) == Cardinality({i \in coords : data[i] <= v})
    IN  CHOOSE v \in {data[i] : i \in coords} :
            AtMost(v) >= k /\ AtMost(v - 1) < k

\* np.median: the middle value, or the mean of the two middle values
Median(data, coords) ==
    LET n == Cardinality(coords)
    IN  IF n = 0 THEN NaN
        ELSE IF n % 2 = 1 THEN QInt(KthSmallest(data, coords, (n + 1) \div 2))
        ELSE Frac(KthSmallest(data, coords, n \div 2)
                  + KthSmallest(data, coords, n \div 2 + 1), 2)

\* one row of the data frame, from the region and its index pairs
DotRecord(img, region, coords) ==
    [label  |-> region.label,
     mean   |-> Mean(FancyIndex(img, coords), coords),
     median |-> Median(FancyIndex(img, coords), coords),
     r      |-> region.centroid[1],
     c      |-> region.centroid[2]]

\* the loop of get_bb_info over the regions
InfoOfRegions(img, regions, R) ==
    IF \E n \in 1 .. Len(regions) :
           ~AllIndexOK(disk(regions[n].centroid, R), img.shape)
    THEN [status |-> "IndexError"]
    ELSE [status  |-> "ok",
          records |-> [n \in 1 .. Len(regions) |->
                          DotRecord(img, regions[n], disk(regions[n].centroid, R))]]

\* the body of get_bb_info once lbl is known
InfoOf(img, lbl, R) == InfoOfRegions(img, regionprops(lbl), R)

\* variant of Labelled that labels the target image
Labelled_img(img, mask) == label(img)

\* lbl = label(bbmask): the notebook global is labelled, whatever mask is
Labelled(img, mask) == label(bbmask)

get_bb_info(img, mask, R) == InfoOf(img, Labelled(img, mask), R)

---------------------------------------------------------------------------
(* Inputs of the dot locator and the cell that calls it (cell 48b38c75):   *)
(*   rbbs  = get_bb_info(bbs, bbmask, R=5)                                 *)
(*   rbbob = get_bb_info(bbob, bbmask, R=5)                                *)

\* shape of the black-body images and masks
DotShape == <<3, 3>>

MaskOf(S) == Image(DotShape, [i \in Indices(DotShape) |-> IF i \in S THEN 1 ELSE 0])

Masks == {MaskOf(S) : S \in {T \in SUBSET Indices(DotShape) : Cardinality(T) <= MaxOn}}

\* contents the mask file may have besides the mask that is passed
LoadedMasks == {MaskOf({}), MaskOf({<<1, 1>>}), MaskOf({<<0, 0>>, <<0, 2>>})}

\* target images: dark everywhere, or dark with one pixel at MaxVal
Targets ==
    {Flat(DotShape, 0)} \cup
    {Image(DotShape, [i \in Indices(DotShape) |-> IF i = j THEN MaxVal ELSE 0]) :
        j \in Indices(DotShape)}

Radii == 1 .. MaxR

InitDots ==
    /\ \E mask \in Masks, bbs \in Targets, bbob \in Targets, R \in Radii :
           /\ args = [bbs |-> bbs, bbob |-> bbob, mask |-> mask, R |-> R]
           /\ bbmask \in {mask} \cup LoadedMasks
    /\ ret = [rbbs |-> Pending, rbbob |-> Pending]
    /\ pc = "rbbs"

\* rbbs = get_bb_info(bbs, mask, R); an exception ends the cell
GetInfoS ==
    /\ pc = "rbbs"
    /\ LET info == get_bb_info(args.bbs, args.mask, args.R)
       IN  /\ ret' = [ret EXCEPT !.rbbs = info]
           /\ pc' = IF info.status = "ok" THEN "rbbob" ELSE "done"
    /\ UNCHANGED <<bbmask, args>>

\* rbbob = get_bb_info(bbob, mask, R)
GetInfoOB ==
    /\ pc = "rbbob"
    /\ ret' = [ret EXCEPT !.rbbob = get_bb_info(args.bbob, args.mask, args.R)]
    /\ pc' = "done"
    /\ UNCHANGED <<bbmask, args>>

NextDots == GetInfoS \/ GetInfoOB

SpecDots == InitDots /\ [][NextDots]_vars

---------------------------------------------------------------------------
(* Properties of the dot locator *)

\* the calls of get_bb_info made so far: target image and outcome
Calls ==
    IF "mask" \notin DOMAIN args THEN {}
    ELSE (IF ret.rbbs.status = "pending" THEN {}
          ELSE {[img |-> args.bbs, info |-> ret.rbbs]})
         \cup
         (IF ret.rbbob.status = "pending" THEN {}
          ELSE {[img |-> args.bbob, info |-> ret.rbbob]})

\* C5 as stated: for a dot mask with k connected components the locator
\* returns exactly k records, one per component, in increasing label order
\* without a repeated label, each with the centroid of its component.
C5_Original_OneRecordPerComponent ==
    \A call \in Calls :
        LET comps == label(args.mask)
        IN  /\ call.info.status = "ok"
            /\ Len(call.info.records) = Len(comps)
            /\ \A n \in 1 .. Len(comps) :
                   /\ <<call.info.records[n].r, call.info.records[n].c>>
                          = Centroid(comps[n])
                   /\ \A m \in 1 .. Len(comps) :
                          m < n => call.info.records[m].label
                                       < call.info.records[n].label

\* the part of a disk that lies inside an image of the given shape
Clipped(coords, shape) ==
    {i \in coords : 0 <= i[1] /\ i[1] < shape[1] /\ 0 <= i[2] /\ i[2] < shape[2]}

\* C6 as stated: a sampling disk that leaves the image does not make the
\* locator fail, and only pixels inside the image contribute to the mean
\* and the median of a record.
C6_Original_DiskClippedToImage ==
    \A call \in Calls :
        /\ call.info.status # "IndexError"
        /\ call.info.status = "ok" =>
               \A n \in 1 .. Len(call.info.records) :
                   LET rec    == call.info.records[n]
                       inside == Clipped(disk(<<rec.r, rec.c>>, args.R), call.img.shape)
                   IN  /\ rec.mean = Mean(call.img.px, inside)
                       /\ rec.median = Median(call.img.px, inside)

\* C7 as stated: for a dot mask without any connected component the
\* locator completes without error and returns no record.
C7_Original_EmptyMaskGivesNoRecords ==
    \A call \in Calls :
        label(args.mask) = <<>> =>
            call.info.status = "ok" /\ call.info.records = <<>>

\* label and centroid of every record, in order
Keys(info) ==
    [n \in 1 .. Len(info.records) |->
        <<info.records[n].label, info.records[n].r, info.records[n].c>>]

\* C8: the two calls of the cell, made with one mask and two target images
\* of its shape, end alike, and their collections have the same length and
\* position by position the same label and centroid.
C8_LabelsStableAcrossImages ==
    ("mask" \in DOMAIN args /\ pc = "done" /\ ret.rbbs.status = "ok")
    => /\ ret.rbbob.status = "ok"
       /\ Len(ret.rbbs.records) = Len(ret.rbbob.records)
       /\ Keys(ret.rbbs) = Keys(ret.rbbob)

\* C8 witness: two dots located in two different images, with a different
\* mean for the first dot
C8_Witness ==
    /\ "mask" \in DOMAIN args /\ pc = "done"
    /\ ret.rbbs.status = "ok" /\ ret.rbbob.status = "ok"
    /\ args.bbs # args.bbob
    /\ Len(ret.rbbs.records) = 2
    /\ ret.rbbs.records[1].mean # ret.rbbob.records[1].mean

\* C9 as stated: the outcome of a call is determined by its arguments (the
\* target image, the mask and the radius), and the components are those of
\* the mask argument.
C9_Original_ResultFromArguments ==
    \A call \in Calls :
        call.info = InfoOf(call.img, label(args.mask), args.R)

---------------------------------------------------------------------------
(* Scatter-corrected normalization (cells c5d773b7, 96664d7c):             *)
(*   nimg_sc = -np.log(bb.normalization_with_BB(h2o, empty, dc, bbs, bbob, *)
(*                                    bbs_s, bbob_s, [0,600,50,700], 0.97))*)
(* with normalization_with_BB the ratio of the revised equation,           *)
(*   N/N_OB * D(N_OB)/D(N),                                                *)
(*   N = I - I_DC - S * D(I - I_DC) / (D(I_BB - I_DC - (1 - 1/tau) S) tau) *)
(* for the sample (I, I_BB, S) and likewise for the open beam.             *)

RECURSIVE QSumOver(_, _)
QSumOver(f, S) ==
    IF S = {} THEN QInt(0)
    ELSE LET i == CHOOSE j \in S : TRUE
         IN  QAdd(f[i], QSumOver(f, S \ {i}))

\* D(a) for an image of fractions
QDose(a, roi) ==
    LET S == SliceIndices(a.shape, roi)
    IN  QDiv(QSumOver(a.px, S), QInt(Cardinality(S)))

\* I_BB - I_DC - (1 - 1/tau) S
BBTerm(bb, dc, s, tau) ==
    Image(bb.shape, [i \in Indices(bb.shape) |->
        QSub(QInt(bb.px[i] - dc.px[i]),
             QMul(QSub(QInt(1), QRecip(tau)), QInt(s.px[i])))])

\* the factor D(I - I_DC) / (D(I_BB - I_DC - (1 - 1/tau) S) tau)
ScatterFactor(a, dc, bb, s, roi, tau) ==
    QDiv(Dose(ImgSub(a, dc), roi), QMul(QDose(BBTerm(bb, dc, s, tau), roi), tau))

\* N = I - I_DC - S * factor
ScatterCorrectedWith(a, dc, s, factor) ==
    Image(a.shape, [i \in Indices(a.shape) |->
        QSub(QInt(a.px[i] - dc.px[i]), QMul(QInt(s.px[i]), factor))])

ScatterCorrected(a, dc, bb, s, roi, tau) ==
    ScatterCorrectedWith(a, dc, s, ScatterFactor(a, dc, bb, s, roi, tau))

\* N/N_OB * D(N_OB)/D(N)
RatioWithDose(n, nob, dose) ==
    Image(n.shape, [i \in Indices(n.shape) |->
        QMul(QDiv(n.px[i], nob.px[i]), dose)])

RatioOf(n, nob, roi) == RatioWithDose(n, nob, QDiv(QDose(nob, roi), QDose(n, roi)))

normalization_with_BB(img, ob, dc, bbs, bbob, bbs_s, bbob_s, roi, tau) ==
    RatioOf(ScatterCorrected(img, dc, bbs, bbs_s, roi, tau),
            ScatterCorrected(ob, dc, bbob, bbob_s, roi, tau), roi)

---------------------------------------------------------------------------
(* Inputs of the two normalizations, all of one shape *)

BBShape == <<1, 2>>

\* black-body images and scatter surfaces of one gray level
BBImages == {Flat(BBShape, v) : v \in {1, MaxVal}}

Surfaces == {Flat(BBShape, v) : v \in {0, 1}}

InsideROIs == {<<0, 0, 1, 1>>, <<0, 1, 1, 2>>, <<0, 0, 1, 2>>}

\* exposure ratios, as fractions: 1 and 0.97
Taus == {<<1, 1>>, <<97, 100>>}

InitBB ==
    /\ bbmask = NoMask
    /\ \E img \in TwoLevel(BBShape), ob \in FlatImages, dc \in FlatImages,
          bbs \in BBImages, bbob \in BBImages,
          bbs_s \in Surfaces, bbob_s \in Surfaces,
          roi \in InsideROIs, tau \in Taus :
           /\ ob.shape = BBShape /\ dc.shape = BBShape
           /\ args = [img |-> img, ob |-> ob, dc |-> dc, bbs |-> bbs, bbob |-> bbob,
                      bbs_s |-> bbs_s, bbob_s |-> bbob_s, roi |-> roi, tau |-> tau]
    /\ ret = [part1 |-> Pending, nimg_sc |-> Pending]
    /\ pc = "normalize"

\* nimg_sc = -np.log(bb.normalization_with_BB(...))
NormalizeBB ==
    /\ pc = "normalization_with_BB"
    /\ ret' = [ret EXCEPT !.nimg_sc =
                  [status |-> "ok",
                   p |-> NegLogImage(normalization_with_BB(
                             args.img, args.ob, args.dc, args.bbs, args.bbob,
                             args.bbs_s, args.bbob_s, args.roi, args.tau))]]
    /\ pc' = "done"
    /\ UNCHANGED <<bbmask, args>>

NextBB == Normalize \/ NormalizeBB

SpecBB == InitBB /\ [][NextBB]_vars

\* the attenuation images produced so far by either normalization
Produced ==
    IF "bbs_s" \notin DOMAIN args
    THEN (IF "img" \in DOMAIN args /\ ret.status = "ok" THEN {ret.p} ELSE {})
    ELSE (IF ret.part1.status = "ok" THEN {ret.part1.p} ELSE {})
         \cup (IF ret.nimg_sc.status = "ok" THEN {ret.nimg_sc.p} ELSE {})

AllFinite(p) == \A i \in Indices(p.shape) : p.px[i].class = "finite"

DoseCorrectedIsFinite ==
    ("bbs_s" \in DOMAIN args /\ ret.part1.status # "pending")
    => ret.part1.status = "ok" /\ AllFinite(ret.part1.p)

---------------------------------------------------------------------------
(* The step-wedge line fit of cell 81dd2b12:  m,b = np.polyfit(x,y,1) *)

MaxPts == 3     \* up to MaxPts measured steps, besides the full wedge

\* sum of a sequence of fractions
RECURSIVE QSum(_)
QSum(s) == IF s = <<>> THEN QInt(0) ELSE QAdd(Head(s), QSum(Tail(s)))

Products(x, y) == [i \in 1 .. Len(x) |-> QMul(x[i], y[i])]

\* variant of Slope for a line through the origin
Slope_origin(n, Sx, Sy, Sxx, Sxy) == QDiv(Sxy, Sxx)

\* slope of the least-squares line of n points, from their sums
Slope(n, Sx, Sy, Sxx, Sxy) ==
    QDiv(QSub(QMul(QInt(n), Sxy), QMul(Sx, Sy)),
         QSub(QMul(QInt(n), Sxx), QMul(Sx, Sx)))

\* intercept of the least-squares line with slope m
Intercept(n, Sx, Sy, m) == QDiv(QSub(Sy, QMul(m, Sx)), QInt(n))

\* np.polyfit(x, y, 1) for x > 0.  An empty x is refused with a TypeError.
\* Points with at least two different x have one least-squares line.  When
\* all x are the same value x0 the fit is rank deficient: numpy warns
\* (RankWarning) and returns the minimum-norm solution of the column-scaled
\* system, the line with m*x0 = b = mean(y)/2.
polyfit(x, y) ==
    LET n   == Len(x)
        Sx  == QSum(x)
        Sy  == QSum(y)
        Sxx == QSum(Products(x, x))
        Sxy == QSum(Products(x, y))
        det == QSub(QMul(QInt(n), Sxx), QMul(Sx, Sx))
        half == QDiv(Sy, QInt(2 * n))
    IN  IF n = 0 THEN [status |-> "TypeError"]
        ELSE IF det # QInt(0)
        THEN LET m == Slope(n, Sx, Sy, Sxx, Sxy)
             IN  [status |-> "ok", m |-> m, b |-> Intercept(n, Sx, Sy, m),
                  warning |-> "none"]
        ELSE [status |-> "ok", m |-> QDiv(half, x[1]), b |-> half,
              warning |-> "RankWarning"]

\* the step thicknesses of the thinner wedge, in mm
StepWedge == << <<1, 2>>, <<1, 1>>, <<3, 2>>, <<2, 1>>, <<5, 2>> >>

Range(s) == {s[i] : i \in DOMAIN s}

Thicknesses == Range(StepWedge)

SeqsUpTo(S, n) == UNION {[1 .. k -> S] : k \in 0 .. n}

Slopes == {<<0, 1>>, <<4, 5>>, <<-1, 2>>}

Intercepts == {<<0, 1>>, <<1, 2>>}

Noise == {<<0, 1>>, <<1, 1>>}

\* the values m*x + b, the first of them off the line by e
Measured(x, m, b, e) ==
    [i \in 1 .. Len(x) |->
        QAdd(QAdd(QMul(m, x[i]), b), IF i = 1 THEN e ELSE QInt(0))]

InitFit ==
    /\ bbmask = NoMask
    /\ \E x \in SeqsUpTo(Thicknesses, MaxPts) \cup {StepWedge} :
       \E m \in Slopes : \E b \in Intercepts : \E e \in Noise :
          args = [x |-> x, y |-> Measured(x, m, b, e)]
    /\ ret = Pending
    /\ pc = "polyfit"

PolyFit ==
    /\ pc = "polyfit"
    /\ ret' = polyfit(args.x, args.y)
    /\ pc' = "done"
    /\ UNCHANGED <<bbmask, args>>

NextFit == PolyFit

SpecFit == InitFit /\ [][NextFit]_vars

FitDone == pc = "done" /\ "x" \in DOMAIN args

OnLine(x, y, m, b) ==
    \A i \in 1 .. Len(x) : y[i] = QAdd(QMul(m, x[i]), b)

\* C11: points of at least two different thicknesses that lie exactly on
\* the line y = m*x + b are fitted with slope m and intercept b; the five
\* steps 0.5 .. 2.5 with attenuation 0.8 * thickness give 0.8 and 0.
C11_ExactLineRecovered ==
    FitDone =>
        \A m \in Slopes : \A b \in Intercepts :
            (Cardinality(Range(args.x)) >= 2 /\ OnLine(args.x, args.y, m, b))
            => (ret.status = "ok" /\ ret.m = m /\ ret.b = b)

C11_Witness ==
    /\ FitDone
    /\ args.x = StepWedge
    /\ OnLine(args.x, args.y, <<4, 5>>, <<0, 1>>)
    /\ ret.status = "ok" /\ ret.m = <<4, 5>> /\ ret.b = <<0, 1>>

\* C12 as stated: with fewer than 2 distinct thickness values (no pairs,
\* one pair, several pairs of the same thickness) the fit fails and
\* returns no slope and no intercept.
C12_Original_FewerThanTwoDistinctFails ==
    (FitDone /\ Cardinality(Range(args.x)) < 2) => ret.status # "ok"

\* what the fit does with them: only the empty input is refused
RankDeficientFitReturns ==
    (FitDone /\ Cardinality(Range(args.x)) = 1)
    => (ret.status = "ok" /\ ret.warning = "RankWarning")

---------------------------------------------------------------------------
(* The water front in the space-time image yt (cells 2a7a57f7 .. 837b4bba): *)
(* rows are heights, columns are time steps                                *)

\* bi_yt = yt<threshold
BiLevel(yt, threshold) ==
    Image(yt.shape, [i \in Indices(yt.shape) |-> yt.px[i] < threshold])

\* numpy orders booleans False < True
AsInt(v) == IF v = TRUE THEN 1 ELSE IF v = FALSE THEN 0 ELSE v

\* variant of ArgMaxOfColumn that keeps the last row holding the maximum
ArgMaxOfColumn_last(data, t) ==
    LET rows == 0 .. data.shape[1] - 1
        v(r) == AsInt(data.px[<<r, t>>])
    IN  CHOOSE r \in rows :
            /\ \A q \in rows : v(q) <= v(r)
            /\ \A q \in rows : q > r => v(q) < v(r)

\* the first row of column t that holds the column's maximum
ArgMaxOfColumn(data, t) ==
    LET rows == 0 .. data.shape[1] - 1
        v(r) == AsInt(data.px[<<r, t>>])
    IN  CHOOSE r \in rows :
            /\ \A q \in rows : v(q) <= v(r)
            /\ \A q \in rows : q < r => v(q) < v(r)

\* np.argmax(data, axis=0): one row index for every column
argmax(data) == [t \in 0 .. data.shape[2] - 1 |-> ArgMaxOfColumn(data, t)]

\* pixelSize=0.088 # mm
pixelSize == <<11, 125>>

\* the front position of every time step, and its height in mm
front(yt, threshold) ==
    LET bi_yt == BiLevel(yt, threshold)
        pos   == argmax(bi_yt)
    IN  [status |-> "ok", bi_yt |-> bi_yt, pos |-> pos,
         height |-> [t \in DOMAIN pos |-> QMul(QInt(pos[t]), pixelSize)]]

FrontShape == <<3, 2>>

InitFront ==
    /\ bbmask = NoMask
    /\ \E f \in [Indices(FrontShape) -> Vals] : \E threshold \in 0 .. MaxVal + 1 :
          args = [yt |-> Image(FrontShape, f), threshold |-> threshold]
    /\ ret = Pending
    /\ pc = "front"

Front ==
    /\ pc = "front"
    /\ ret' = front(args.yt, args.threshold)
    /\ pc' = "done"
    /\ UNCHANGED <<bbmask, args>>

NextFront == Front

SpecFront == InitFront /\ [][NextFront]_vars

FrontDone == pc = "done" /\ "yt" \in DOMAIN args

\* the rows of time step t where yt is below the threshold
Crossing(t) ==
    {r \in 0 .. args.yt.shape[1] - 1 : args.yt.px[<<r, t>>] < args.threshold}

TimeSteps == 0 .. args.yt.shape[2] - 1

\* C13: for every time column with at least one crossing row the reported
\* position is the smallest crossing row index: it crosses and no smaller
\* row index does.
C13_FirstCrossingRow ==
    FrontDone =>
        \A t \in TimeSteps :
            Crossing(t) # {} =>
                /\ ret.pos[t] \in Crossing(t)
                /\ \A r \in Crossing(t) : ret.pos[t] <= r

\* a column whose first rows do not cross and whose later rows do
C13_Witness ==
    /\ FrontDone
    /\ \E t \in TimeSteps :
          /\ Cardinality(Crossing(t)) >= 2
          /\ 0 \notin Crossing(t)
          /\ ret.pos[t] = 1

\* C14 as stated: for a time column without any crossing row the reported
\* position is a sentinel that is no valid row index, in particular not 0.
C14_Original_NoCrossingGivesSentinel ==
    FrontDone =>
        \A t \in TimeSteps :
            Crossing(t) = {} => ret.pos[t] \notin 0 .. args.yt.shape[1] - 1

\* what np.argmax reports for such a column
NoCrossingReportsRowZero ==
    FrontDone => \A t \in TimeSteps : Crossing(t) = {} => ret.pos[t] = 0

---------------------------------------------------------------------------
(* Regions and the two normalizations compared *)

\* C17 as stated: a region is accepted only if it lies inside the image and
\* has a non-zero area; with row0 = row1, col0 = col1 or a coordinate
\* outside the image the region is rejected and no dose is taken over an
\* empty or truncated region.
C17_Original_InvalidROIRejected ==
    (NormDone /\ AllSameShape /\ ~ValidROI(args.img.shape, args.roi))
    => ret.status # "ok"

\* what the slicing does with such a region: an empty slice has the mean
\* NaN, which reaches every pixel of the output
EmptyROIGivesNaN ==
    (NormDone /\ AllSameShape /\ SliceIndices(args.img.shape, args.roi) = {})
    => (ret.status = "ok"
        /\ \A i \in Indices(ret.p.shape) : ret.p.px[i].class = "nan")

BothDone == pc = "done" /\ "bbs_s" \in DOMAIN args

ZeroSurfaces ==
    args.bbs_s = Flat(BBShape, 0) /\ args.bbob_s = Flat(BBShape, 0)

AwayFromClampAndZeroDose ==
    /\ \A bb \in {args.bbs, args.bbob} : Dose(ImgSub(bb, args.dc), args.roi) # QInt(0)
    /\ \A a \in {args.img, args.ob} :
          \A i \in Indices(BBShape) : a.px[i] - args.dc.px[i] >= 1

\* the two outputs do agree there
ZeroSurfacesAgreeAwayFromClamp ==
    (BothDone /\ ZeroSurfaces /\ AwayFromClampAndZeroDose)
    => ret.nimg_sc.p = ret.part1.p

---------------------------------------------------------------------------
(* The cells run one after another on one notebook namespace.  The         *)
(* namespace binds names to array objects: env maps a name to a reference  *)
(* and heap maps a reference to the array's contents.  An arithmetic       *)
(* expression or a library call produces a new array; an indexed store     *)
(* such as a[a<1]=1 changes the array the name refers to.                  *)

Put(f, k, v) == [x \in DOMAIN f \cup {k} |-> IF x = k THEN v ELSE f[x]]

Val(st, name) == st.heap[st.env[name]]

\* name = <expression>: the name is bound to a new array
Alloc(st, name, value) ==
    [env  |-> Put(st.env, name, <<"new", name>>),
     heap |-> Put(st.heap, <<"new", name>>, value)]

\* name = other: the name is bound to the array other refers to
Bind(st, name, other) == [st EXCEPT !.env = Put(st.env, name, st.env[other])]

\* name[...] = ...: the array the name refers to gets new contents
Store(st, name, value) == [st EXCEPT !.heap[st.env[name]] = value]

\* variant of Subtract that subtracts in place, a -= b; target = a
Subtract_inplace(st, target, a, b) ==
    Bind(Store(st, a, ImgSub(Val(st, a), Val(st, b))), target, a)

\* target = a - b
Subtract(st, target, a, b) == Alloc(st, target, ImgSub(Val(st, a), Val(st, b)))

\* name[name<1] = 1
StoreWhereBelow1(st, name) == Store(st, name, ClampLow(Val(st, name)))

\* the normalization cell on images of one shape: subtract DC, adjust
\* pixels less than 1 to 1, ratio with the doses, logarithm
normalize_cell(st) ==
    LET s1 == StoreWhereBelow1(Subtract(st, "s", "img", "dc"), "s")
        s2 == StoreWhereBelow1(Subtract(s1, "o", "ob", "dc"), "o")
    IN  [status |-> "ok",
         st |-> Alloc(s2, "p", NegLogImage(
                    Transmission(Val(s2, "s"), Val(s2, "o"), Val(s2, "roi"))))]

\* rbbs = get_bb_info(bbs, bbmask, R); rbbob = get_bb_info(bbob, bbmask, R)
get_bb_info_cell(st) ==
    LET rbbs  == get_bb_info(Val(st, "bbs"), bbmask, Val(st, "R"))
        rbbob == get_bb_info(Val(st, "bbob"), bbmask, Val(st, "R"))
    IN  IF rbbs.status # "ok" THEN [status |-> rbbs.status, st |-> st]
        ELSE IF rbbob.status # "ok"
        THEN [status |-> rbbob.status, st |-> Alloc(st, "rbbs", rbbs.records)]
        ELSE [status |-> "ok",
              st |-> Alloc(Alloc(st, "rbbs", rbbs.records), "rbbob", rbbob.records)]

\* nimg_sc = -np.log(bb.normalization_with_BB(...))
normalization_with_BB_cell(st) ==
    [status |-> "ok",
     st |-> Alloc(st, "nimg_sc", NegLogImage(normalization_with_BB(
                Val(st, "img"), Val(st, "ob"), Val(st, "dc"),
                Val(st, "bbs"), Val(st, "bbob"), Val(st, "bbs_s"),
                Val(st, "bbob_s"), Val(st, "roi"), Val(st, "tau"))))]

\* m,b = np.polyfit(x,y,1)
polyfit_cell(st) ==
    LET fit == polyfit(Val(st, "x"), Val(st, "y"))
    IN  IF fit.status # "ok" THEN [status |-> fit.status, st |-> st]
        ELSE [status |-> "ok", st |-> Alloc(Alloc(st, "m", fit.m), "b", fit.b)]

\* bi_yt = yt<threshold, then the front position and its height
front_cell(st) ==
    LET f == front(Val(st, "yt"), Val(st, "threshold"))
    IN  [status |-> "ok",
         st |-> Alloc(Alloc(Alloc(st, "bi_yt", f.bi_yt), "pos", f.pos),
                      "height", f.height)]

\* what the loading cells put into the namespace
InputNames ==
    {"img", "dc", "ob", "roi", "bbs", "bbob", "bbs_s", "bbob_s", "tau", "R",
     "x", "y", "yt", "threshold"}

Loaded(values) ==
    [env  |-> [n \in InputNames |-> <<"in", n>>],
     heap |-> [r \in {<<"in", n>> : n \in InputNames} |-> values[r[2]]]]

FrontImages ==
    {Image(FrontShape, [i \in Indices(FrontShape) |-> IF i[1] >= k THEN 0 ELSE MaxVal]) :
        k \in 0 .. 1}

InitCells ==
    /\ bbmask \in LoadedMasks
    /\ \E img \in Targets, bbs \in {Flat(DotShape, 0), Flat(DotShape, MaxVal)},
          dc \in {Flat(DotShape, v) : v \in 0 .. 1},
          ob \in {Flat(DotShape, v) : v \in {1, MaxVal}},
          yt \in FrontImages :
          args = Loaded([img |-> img, dc |-> dc, ob |-> ob, roi |-> <<0, 0, 1, 2>>,
                         bbs |-> bbs, bbob |-> Flat(DotShape, 1),
                         bbs_s |-> Flat(DotShape, 1), bbob_s |-> Flat(DotShape, 1),
                         tau |-> <<97, 100>>, R |-> 1,
                         x |-> StepWedge,
                         y |-> Measured(StepWedge, <<4, 5>>, <<0, 1>>, <<0, 1>>),
                         yt |-> yt, threshold |-> 1])
    /\ ret = Pending
    /\ pc = "cells"

\* a cell is run: the namespace becomes what the cell leaves
RunCell(name, out) ==
    /\ pc = "cells"
    /\ args' = out.st
    /\ ret' = [cell |-> name, status |-> out.status]
    /\ UNCHANGED <<bbmask, pc>>

CellNormalize == RunCell("normalize", normalize_cell(args))

CellGetInfo == RunCell("get_bb_info", get_bb_info_cell(args))

CellNormalizeBB == RunCell("normalization_with_BB", normalization_with_BB_cell(args))

CellPolyFit == RunCell("polyfit", polyfit_cell(args))

CellFront == RunCell("front", front_cell(args))

NextCells ==
    CellNormalize \/ CellGetInfo \/ CellNormalizeBB \/ CellPolyFit \/ CellFront

SpecCells == InitCells /\ [][NextCells]_vars

InputRefs == {args.env[n] : n \in InputNames}

\* a step keeps the mask, keeps every input name on its array, keeps the
\* contents of every input array and binds results to arrays that are no
\* input arrays
InputsKept ==
    /\ bbmask' = bbmask
    /\ \A n \in InputNames :
          /\ args'.env[n] = args.env[n]
          /\ args'.heap[args.env[n]] = args.heap[args.env[n]]
    /\ \A n \in DOMAIN args'.env \ InputNames : args'.env[n] \notin InputRefs

CellsAgreeWithStages ==
    pc = "cells" =>
        /\ "p" \in DOMAIN args.env =>
              Val(args, "p") = normalize(Val(args, "img"), Val(args, "dc"),
                                         Val(args, "ob"), Val(args, "roi")).p
        /\ "m" \in DOMAIN args.env =>
              Val(args, "m") = polyfit(Val(args, "x"), Val(args, "y")).m

---------------------------------------------------------------------------
(* How a stage ends *)

\* the exceptions that stand for a named error: numpy's ValueError for
\* operands that cannot be broadcast (ShapeMismatch) and np.polyfit's
\* TypeError for an empty x (InsufficientPoints)
NamedFailures == {"ValueError", "TypeError"}

FailureIsWhole ==
    \A call \in Calls :
        call.info.status # "ok" =>
            /\ DOMAIN call.info = {"status"}
            /\ ret.rbbs.status # "ok" => ret.rbbob.status = "pending"

---------------------------------------------------------------------------
(* The notebook as a whole: any of the exercises *)

Init == InitNorm \/ InitDots \/ InitBB \/ InitFit \/ InitFront \/ InitCells

Next ==
    \/ Normalize \/ GetInfoS \/ GetInfoOB \/ NormalizeBB
    \/ PolyFit \/ Front
    \/ CellNormalize \/ CellGetInfo \/ CellNormalizeBB \/ CellPolyFit \/ CellFront

Spec == Init /\ [][Next]_vars

============================================================================
